---- MODULE Spec2Model ----
(***************************************************************************)
(* Photo batch processing pipeline of photo-registration-form.             *)
(*                                                                         *)
(* One PhotoBatch with its Photo rows, the files of its batch directory,   *)
(* the ProcessingLog, the background workers started by the HTTP triggers  *)
(* (one PhotoProcessor per worker) and the batch lifecycle.                *)
(*                                                                         *)
(* The progress fields current_action and processed_photos are not part of *)
(* the state: a commit that persists only those fields is visible in the   *)
(* model only when it raises.                                              *)
(***************************************************************************)
EXTENDS Integers, Sequences, FiniteSets, TLC

(* ------------------------------------------------------------------ *)
(* Bounds                                                               *)
(* ------------------------------------------------------------------ *)
MaxPhotos == 2
MaxTriggers == 2
MaxLockEvents == 1

(* ------------------------------------------------------------------ *)
(* Program constants                                                    *)
(* ------------------------------------------------------------------ *)
max_attempts == 5

(* ------------------------------------------------------------------ *)
(* Registrations (read-only table for Phase 1)                          *)
(* ------------------------------------------------------------------ *)
NULL == 0
Alice == 1
Bob == 2
RegistrationIds == {Alice, Bob}

Registration(r) ==
    [id |-> r,
     qr_token |-> IF r = Alice THEN "token-alice" ELSE "token-bob",
     name |-> IF r = Alice THEN "alice" ELSE "bob"]

(* Parsed payloads carried by the QR markers of the batch.  name stands   *)
(* for the triple (first_name, last_name, email).                         *)
NoPayload == [qr_token |-> "", registration_id |-> NULL, name |-> ""]
PayloadOf(r) ==
    [qr_token |-> Registration(r).qr_token, registration_id |-> r,
     name |-> Registration(r).name]
PayloadStranger == [qr_token |-> "token-zed", registration_id |-> 9, name |-> "zed"]
Payloads == {PayloadOf(r) : r \in RegistrationIds} \cup {PayloadStranger}

(* What the batch directory holds under a photo's filename.               *)
FileMissing == [kind |-> "missing", payload |-> NoPayload]
FilePlain == [kind |-> "plain", payload |-> NoPayload]
FileQR(p) == [kind |-> "qr", payload |-> p]
FileContents ==
    {FileMissing, FilePlain} \cup {FileQR(p) : p \in Payloads}

(* ------------------------------------------------------------------ *)
(* State                                                                *)
(* ------------------------------------------------------------------ *)
VARIABLES batch, photos, files, logs, workers, triggers, response, locks,
          registrations, processed_dir, call

vars == <<batch, photos, files, logs, workers, triggers, response, locks,
          registrations, processed_dir, call>>

(* The state of the batch pipeline; call holds one invocation of a      *)
(* function of the core taken on its own (its arguments, then its       *)
(* result).                                                             *)
pipeline == <<batch, photos, files, logs, workers, triggers, response, locks,
              registrations, processed_dir>>

NoCall == [fn |-> "none", done |-> TRUE]

(* ------------------------------------------------------------------ *)
(* db_commit_with_retry                                                 *)
(* ------------------------------------------------------------------ *)
(* locked: how many leading commit attempts meet 'database is locked'.  *)
(* The loop is run attempt by attempt; pending tells whether the        *)
(* session still holds the caller's changes.                            *)
RECURSIVE commit_attempt(_, _, _)
commit_attempt(attempt, locked, pending) ==
    IF attempt >= max_attempts
    THEN [ret |-> "False", persisted |-> FALSE, attempts |-> attempt]
    ELSE IF attempt >= locked
         THEN [ret |-> "True", persisted |-> pending, attempts |-> attempt + 1]
         ELSE IF attempt < max_attempts - 1
              THEN commit_attempt(attempt + 1, locked, FALSE)
              ELSE [ret |-> "raise", persisted |-> FALSE, attempts |-> attempt + 1]

(* A commit helper that gives up at the first locked attempt            *)
db_commit_without_retry(locked) ==
    IF locked = 0
    THEN [ret |-> "True", persisted |-> TRUE, attempts |-> 1]
    ELSE [ret |-> "raise", persisted |-> FALSE, attempts |-> 1]

db_commit_with_retry(locked) == commit_attempt(0, locked, TRUE)

(* Lock patterns offered to every commit: none, one locked attempt,     *)
(* every attempt locked.                                                *)
LockOutcomes == {0, 1, max_attempts}

(* The environment of one run: locks counts the commits that met a      *)
(* locked database so far.                                              *)
LockCost(locked) == IF locked > 0 THEN 1 ELSE 0
MeetLocks(n) == locks + n <= MaxLockEvents /\ locks' = locks + n

Persisted(locked) == db_commit_with_retry(locked).persisted
Raised(locked) == db_commit_with_retry(locked).ret = "raise"

DatabaseLocked == "database is locked"
NoPhotosFound == "No photos found in batch"

(* ------------------------------------------------------------------ *)
(* Model rows                                                           *)
(* ------------------------------------------------------------------ *)
NewPhoto ==
    [registration_id |-> NULL, is_qr_code |-> FALSE,
     processed |-> FALSE, uploaded_to_drive |-> FALSE]

NewBatch ==
    [status |-> "uploading", people_found |-> 0, unmatched_photos |-> 0,
     error_message |-> "", processing_completed_at |-> FALSE]

NewRegistration ==
    [photo_count |-> 0, drive_folder_id |-> NULL, drive_share_link |-> NULL]

IdleWorker ==
    [pc |-> "idle", phase |-> 0, total_photos |-> 0, idx |-> 0,
     current_registration_id |-> NULL, people_found |-> 0, exc |-> "",
     people |-> <<>>, person_photos |-> {}, drive_results |-> <<>>,
     dirty_people_found |-> FALSE]

(* A thread that has ended: its PhotoProcessor is gone, only the phase  *)
(* it ran is remembered.                                                *)
EndedWorker(phase) == [IdleWorker EXCEPT !.pc = "done", !.phase = phase]

(* A processor whose grouping cursor is not reset by __init__           *)
PhotoProcessorStaleCursor(phase) ==
    [pc |-> "start", phase |-> phase, total_photos |-> 0, idx |-> 0,
     current_registration_id |-> Alice, people_found |-> 0, exc |-> "",
     people |-> <<>>, person_photos |-> {}, drive_results |-> <<>>,
     dirty_people_found |-> FALSE]

(* PhotoProcessor.__init__ as run by the background thread              *)
(* (lines 106-114: current_registration_id, people_found and            *)
(* photos_processed are the only counters it sets); the other fields    *)
(* are locals of the phase the thread runs.                             *)
PhotoProcessor(phase) ==
    [pc |-> "start", phase |-> phase, total_photos |-> 0, idx |-> 0,
     current_registration_id |-> NULL, people_found |-> 0, exc |-> "",
     people |-> <<>>, person_photos |-> {}, drive_results |-> <<>>,
     dirty_people_found |-> FALSE]

(* Attributes of a PhotoProcessor instance after __init__               *)
ProcessorAttributes ==
    {"batch_id", "batch", "current_registration_id", "people_found",
     "photos_processed", "batch_dir", "thumbnails_dir"}

LogEntry(action, level, photo) == [action |-> action, level |-> level, photo |-> photo]

(* ------------------------------------------------------------------ *)
(* QR detector: qr_detector.detect_qr_in_image and _try_decode_qr       *)
(* ------------------------------------------------------------------ *)
(* The frames detect_qr_in_image hands to _try_decode_qr, in the order  *)
(* of the code: the image as read (downscaled when large), then the     *)
(* preprocessed frames.                                                 *)
Strategies ==
    <<"image", "gray", "enhanced", "thresh", "clahe_enhanced", "bilateral",
      "sharpened", "gamma_corrected", "gray_full", "clahe_full",
      "sharpened_full", "otsu", "otsu_inv", "otsu_median", "morph">>

StrategyNames == {Strategies[k] : k \in 1..Len(Strategies)}

(* Strategy 5: the frames made from original_image                      *)
FullResolution == {"gray_full", "clahe_full", "sharpened_full"}

max_dimension == 1200

(* What a backend makes of a frame: no code, a code whose text          *)
(* parse_qr_data rejects, a code whose text it accepts, an exception.   *)
BackendOutcomes == {"none", "malformed", "valid", "raises"}

QRDetectionResult(detected, parsed_data, error) ==
    [detected |-> detected, parsed_data |-> parsed_data, error |-> error]

(* _try_decode_qr: pyzbar first; OpenCV's QRCodeDetector when pyzbar    *)
(* gave no code or a text that does not parse; an exception of either   *)
(* ends the attempt.  backends lists the decoders that were run.        *)
_try_decode_qr(frame, payload) ==
    IF frame.pyzbar = "raises"
    THEN [result |-> QRDetectionResult(FALSE, NoPayload, "decode error"),
          backends |-> <<"pyzbar">>]
    ELSE IF frame.pyzbar = "valid"
    THEN [result |-> QRDetectionResult(TRUE, payload, ""),
          backends |-> <<"pyzbar">>]
    ELSE IF frame.opencv = "raises"
    THEN [result |-> QRDetectionResult(FALSE, NoPayload, "decode error"),
          backends |-> <<"pyzbar", "opencv">>]
    ELSE IF frame.opencv = "valid"
    THEN [result |-> QRDetectionResult(TRUE, payload, ""),
          backends |-> <<"pyzbar", "opencv">>]
    ELSE [result |-> QRDetectionResult(FALSE, NoPayload, ""),
          backends |-> <<"pyzbar", "opencv">>]

(* lines 165-176 with the checks left out                               *)
read_image_unchecked(image) == ""

(* lines 165-176: os.path.exists and cv2.imread                         *)
read_image(image) ==
    IF ~image.exists THEN "File not found"
    ELSE IF ~image.readable THEN "Failed to read image"
    ELSE ""

(* A detector that goes on to the enhancements in either mode           *)
FastPathNever(enhance) == FALSE

(* line 201: if not enhance                                             *)
FastPath(enhance) == ~enhance

(* Strategies 2 to 6 (lines 206-314): every frame is tried until one    *)
(* decodes; the full resolution frames only when the image was          *)
(* downscaled.                                                          *)
RECURSIVE try_strategies(_, _, _, _)
try_strategies(image, downscaled, k, attempts) ==
    IF k > Len(Strategies)
    THEN [result |-> QRDetectionResult(FALSE, NoPayload, "No QR code found"),
          attempts |-> attempts]
    ELSE IF Strategies[k] \in FullResolution /\ ~downscaled
    THEN try_strategies(image, downscaled, k + 1, attempts)
    ELSE LET tried == _try_decode_qr(image.frames[Strategies[k]], image.payload) IN
         IF tried.result.detected
         THEN [result |-> tried.result, attempts |-> Append(attempts, Strategies[k])]
         ELSE try_strategies(image, downscaled, k + 1, Append(attempts, Strategies[k]))

(* detect_qr_in_image(image_path, enhance): the result, the frames      *)
(* handed to _try_decode_qr, whether the image was downscaled, and the  *)
(* decoders run on the first frame.                                     *)
detect_qr_in_image_enhance(image, enhance) ==
    IF read_image(image) # ""
    THEN [result |-> QRDetectionResult(FALSE, NoPayload, read_image(image)),
          attempts |-> <<>>, downscaled |-> FALSE, backends |-> <<>>]
    ELSE LET downscaled == image.width > max_dimension \/ image.height > max_dimension
             first == _try_decode_qr(image.frames["image"], image.payload)
         IN IF first.result.detected
            THEN [result |-> first.result, attempts |-> <<"image">>,
                  downscaled |-> downscaled, backends |-> first.backends]
            ELSE IF FastPath(enhance)
            THEN [result |-> QRDetectionResult(FALSE, NoPayload, "No QR code found"),
                  attempts |-> <<"image">>,
                  downscaled |-> downscaled, backends |-> first.backends]
            ELSE LET later == try_strategies(image, downscaled, 2, <<"image">>) IN
                 [result |-> later.result, attempts |-> later.attempts,
                  downscaled |-> downscaled, backends |-> first.backends]

(* An image: what both decoders make of the frame read from it (direct) *)
(* and the preprocessed frames in which its code becomes decodable      *)
(* (visible).                                                           *)
Image(exists, readable, size, direct, visible, payload) ==
    [exists |-> exists, readable |-> readable,
     width |-> size[1], height |-> size[2], payload |-> payload,
     frames |-> [s \in StrategyNames |->
                   IF s = "image" THEN direct
                   ELSE IF s \in visible
                        THEN [pyzbar |-> "valid", opencv |-> "valid"]
                        ELSE [pyzbar |-> "none", opencv |-> "none"]]]

NoCode == [pyzbar |-> "none", opencv |-> "none"]

(* The image behind a file of the batch                                 *)
ImageOf(content) ==
    IF content.kind = "missing"
    THEN Image(FALSE, FALSE, <<800, 600>>, NoCode, {}, NoPayload)
    ELSE IF content.kind = "unreadable"
    THEN Image(TRUE, FALSE, <<800, 600>>, NoCode, {}, NoPayload)
    ELSE IF content.kind = "qr"
    THEN Image(TRUE, TRUE, <<800, 600>>,
               [pyzbar |-> "valid", opencv |-> "valid"], {}, content.payload)
    ELSE IF content.kind = "malformed"
    THEN Image(TRUE, TRUE, <<800, 600>>,
               [pyzbar |-> "malformed", opencv |-> "malformed"], {}, NoPayload)
    ELSE Image(TRUE, TRUE, <<800, 600>>, NoCode, {}, NoPayload)

(* ------------------------------------------------------------------ *)
(* QR detection and registration matching                               *)
(* ------------------------------------------------------------------ *)
(* photo_processor.py 279: detect_qr_in_image(path, enhance=False) on   *)
(* a file of the batch; a result is detected only together with a       *)
(* parsed payload.                                                      *)
detect_qr_in_image(content) ==
    detect_qr_in_image_enhance(ImageOf(content), FALSE).result

ByToken(qr_data) == {r \in RegistrationIds : Registration(r).qr_token = qr_data.qr_token}
ById(qr_data) == {r \in RegistrationIds : r = qr_data.registration_id}
ByName(qr_data) == {r \in RegistrationIds : Registration(r).name = qr_data.name}

First(S) == CHOOSE r \in S : \A q \in S : r <= q

(* A matcher that looks the numeric id up before the token            *)
_match_registration_id_first(qr_data) ==
    IF qr_data.registration_id # NULL /\ ById(qr_data) # {}
    THEN First(ById(qr_data))
    ELSE IF qr_data.qr_token # "" /\ ByToken(qr_data) # {}
         THEN First(ByToken(qr_data))
         ELSE IF ByName(qr_data) # {}
              THEN First(ByName(qr_data))
              ELSE NULL

(* the log action _match_registration writes on its way out            *)
_match_registration_log(qr_data) ==
    IF qr_data.qr_token # "" /\ ByToken(qr_data) # {}
    THEN "qr_matched_token"
    ELSE IF qr_data.registration_id # NULL /\ ById(qr_data) # {}
         THEN "qr_matched_id"
         ELSE IF ByName(qr_data) # {}
              THEN "qr_matched_manual"
              ELSE "qr_no_match"

_match_registration(qr_data) ==
    IF qr_data.qr_token # "" /\ ByToken(qr_data) # {}
    THEN First(ByToken(qr_data))
    ELSE IF qr_data.registration_id # NULL /\ ById(qr_data) # {}
         THEN First(ById(qr_data))
         ELSE IF ByName(qr_data) # {}
              THEN First(ByName(qr_data))
              ELSE NULL

(* _assign_to_current_person: the photo row it leaves in the session    *)
_assign_to_current_person(photo, current_registration_id) ==
    IF current_registration_id = NULL
    THEN photo
    ELSE [photo EXCEPT !.registration_id = current_registration_id]

(* ------------------------------------------------------------------ *)
(* Initial state: the batch right after create_photo_batch              *)
(* ------------------------------------------------------------------ *)
Init ==
    /\ batch = NewBatch
    /\ photos = <<>>
    /\ files = <<>>
    /\ logs = {}
    /\ workers = [w \in 1..MaxTriggers |-> IdleWorker]
    /\ triggers = 0
    /\ response = 0
    /\ locks = 0
    /\ registrations = [r \in RegistrationIds |-> NewRegistration]
    /\ processed_dir = [r \in RegistrationIds |-> {}]
    /\ call = NoCall

(* ------------------------------------------------------------------ *)
(* HTTP handlers                                                        *)
(* ------------------------------------------------------------------ *)
(* upload_photo_file: files arrive in filename order; the file is on    *)
(* disk before the row is committed.  A file may later be absent from   *)
(* storage, which is drawn here as the content "missing".               *)
upload_photo_file(content) ==
    /\ Len(photos) < MaxPhotos
    /\ photos' = Append(photos, NewPhoto)
    /\ files' = Append(files, content)
    /\ UNCHANGED <<call, batch, logs, workers, triggers, response, locks, registrations, processed_dir>>

mark_batch_uploaded ==
    /\ batch' = [batch EXCEPT !.status = "uploaded"]
    /\ batch'.status # batch.status
    /\ UNCHANGED <<call, photos, files, logs, workers, triggers, response, locks, registrations, processed_dir>>

(* A status check that also lets a batch in processing start again     *)
StartAcceptedWhileProcessing(status) == status \in {"uploaded", "error", "processing"}

StartAccepted(status) == status \in {"uploaded", "error"}

start_batch_processing ==
    /\ triggers < MaxTriggers
    /\ triggers' = triggers + 1
    /\ IF StartAccepted(batch.status)
       THEN /\ workers' = [workers EXCEPT ![triggers + 1] = PhotoProcessor(1)]
            /\ response' = 200
       ELSE /\ workers' = workers
            /\ response' = 400
    /\ UNCHANGED <<call, batch, photos, files, logs, locks, registrations, processed_dir>>

(* ------------------------------------------------------------------ *)
(* Phase 1 worker: PhotoProcessor.process_batch                         *)
(* ------------------------------------------------------------------ *)
Fail(w, text) ==
    workers' = [workers EXCEPT ![w].pc = "except", ![w].exc = text]

(* lines 214-237: status "processing", photo query, start logs          *)
process_batch_start(w, locked, later) ==
    /\ workers[w].pc = "start"
    /\ workers[w].phase = 1
    /\ MeetLocks(LockCost(locked) + LockCost(later))
    /\ batch' = IF Persisted(locked)
                THEN [batch EXCEPT !.status = "processing"]
                ELSE batch
    /\ IF Raised(locked)
       THEN Fail(w, DatabaseLocked)
       ELSE IF Len(photos) = 0
            THEN Fail(w, NoPhotosFound)
            ELSE IF Raised(later)
                 THEN Fail(w, DatabaseLocked)
                 ELSE workers' = [workers EXCEPT ![w].pc = "loop", ![w].idx = 1,
                                                 ![w].total_photos = Len(photos)]
    /\ UNCHANGED <<call, photos, files, logs, triggers, response, registrations, processed_dir>>

(* lines 240-332: one iteration of the photo loop.                      *)
(* before: the progress commits ahead of the iteration's write;         *)
(* locked: the commit of the iteration's write;                         *)
(* after:  the log and progress commits that follow it.                 *)
process_batch_photo(w, before, locked, after) ==
    LET me == workers[w]
        i == me.idx
        qr_result == detect_qr_in_image(files[i])
        registration == _match_registration(qr_result.parsed_data)
        next == IF i < me.total_photos THEN "loop" ELSE "finish"
    IN
    /\ me.pc = "loop"
    /\ MeetLocks(LockCost(before) + LockCost(locked) + LockCost(after))
    /\ IF Raised(before)
       THEN /\ Fail(w, DatabaseLocked)
            /\ UNCHANGED <<photos, logs>>
       ELSE IF files[i].kind = "missing"
       THEN /\ logs' = IF Persisted(locked)
                       THEN logs \cup {LogEntry("photo_missing", "error", i)}
                       ELSE logs
            /\ IF Raised(locked)
               THEN Fail(w, DatabaseLocked)
               ELSE workers' = [workers EXCEPT ![w].pc = next, ![w].idx = i + 1]
            /\ UNCHANGED photos
       ELSE IF qr_result.detected /\ registration # NULL
       THEN /\ photos' = IF Persisted(locked)
                         THEN [photos EXCEPT ![i].is_qr_code = TRUE,
                                             ![i].registration_id = registration]
                         ELSE photos
            /\ IF Raised(locked) \/ Raised(after)
               THEN Fail(w, DatabaseLocked)
               ELSE workers' = [workers EXCEPT
                                   ![w].pc = next, ![w].idx = i + 1,
                                   ![w].current_registration_id = registration,
                                   ![w].people_found = me.people_found + 1]
            /\ UNCHANGED logs
       ELSE IF qr_result.detected
       THEN /\ photos' = IF Persisted(locked)
                         THEN [photos EXCEPT ![i].is_qr_code = TRUE]
                         ELSE photos
            /\ IF Raised(locked) \/ Raised(after)
               THEN Fail(w, DatabaseLocked)
               ELSE workers' = [workers EXCEPT ![w].pc = next, ![w].idx = i + 1]
            /\ UNCHANGED logs
       ELSE /\ photos' = IF Persisted(locked)
                         THEN [photos EXCEPT ![i] =
                                  _assign_to_current_person(photos[i],
                                                            me.current_registration_id)]
                         ELSE photos
            /\ IF Raised(locked)
               THEN Fail(w, DatabaseLocked)
               ELSE workers' = [workers EXCEPT ![w].pc = next, ![w].idx = i + 1]
            /\ UNCHANGED logs
    /\ UNCHANGED <<call, batch, files, triggers, response, registrations, processed_dir>>

(* lines 340-344: photos of the batch without owner                      *)
UnmatchedCount(ps) == Cardinality({i \in 1..Len(ps) : ps[i].registration_id = NULL})

(* lines 334-376: counts, status "awaiting_review", closing log         *)
process_batch_finish(w, before, locked, after) ==
    LET me == workers[w] IN
    /\ me.pc = "finish"
    /\ MeetLocks(LockCost(before) + LockCost(locked) + LockCost(after))
    /\ IF Raised(before)
       THEN /\ Fail(w, DatabaseLocked)
            /\ UNCHANGED batch
       ELSE /\ batch' = IF Persisted(locked)
                        THEN [batch EXCEPT !.status = "awaiting_review",
                                           !.people_found = me.people_found,
                                           !.unmatched_photos = UnmatchedCount(photos)]
                        ELSE batch
            /\ IF Raised(locked) \/ Raised(after)
               THEN Fail(w, DatabaseLocked)
               ELSE workers' = [workers EXCEPT ![w] = EndedWorker(me.phase)]
    /\ UNCHANGED <<call, photos, files, logs, triggers, response, registrations, processed_dir>>

(* lines 378-394: the phase boundary handler.  When its own commit      *)
(* raises, the exception leaves process_batch and is logged by          *)
(* process_in_background (app.py 1843-1846).                            *)
process_batch_except(w, locked) ==
    LET me == workers[w] IN
    /\ me.pc = "except"
    /\ me.phase = 1
    /\ MeetLocks(LockCost(locked))
    /\ batch' = IF Persisted(locked)
                THEN [batch EXCEPT !.status = "error", !.error_message = me.exc]
                ELSE batch
    /\ workers' = [workers EXCEPT ![w] = EndedWorker(me.phase)]
    /\ UNCHANGED <<call, photos, files, logs, triggers, response, registrations, processed_dir>>

(* ------------------------------------------------------------------ *)
(* Phase 2 trigger                                                      *)
(* ------------------------------------------------------------------ *)
(* The operation that starts Phase 2 once the batch is reviewed; it     *)
(* runs process_phase2_drive_upload on a new PhotoProcessor in a        *)
(* background thread, like start_batch_processing.                      *)
start_phase2_upload ==
    /\ triggers < MaxTriggers
    /\ batch.status = "awaiting_review"
    /\ triggers' = triggers + 1
    /\ workers' = [workers EXCEPT ![triggers + 1] = PhotoProcessor(2)]
    /\ response' = 200
    /\ UNCHANGED <<call, batch, photos, files, logs, locks, registrations, processed_dir>>

(* ------------------------------------------------------------------ *)
(* Phase 2 worker: PhotoProcessor.process_phase2_drive_upload           *)
(* ------------------------------------------------------------------ *)
AttributeErrorText == "'PhotoProcessor' object has no attribute 'unmatched_photos'"

Owners(ps) == {ps[i].registration_id : i \in 1..Len(ps)} \ {NULL}

RECURSIVE SortedSeq(_)
SortedSeq(S) ==
    IF S = {} THEN <<>> ELSE <<First(S)>> \o SortedSeq(S \ {First(S)})

(* lines 414-418: registrations owning a photo of the batch             *)
registrations_with_photos(ps) == SortedSeq(Owners(ps))

(* lines 442-445 *)
PersonPhotos(ps, r) == {i \in 1..Len(ps) : ps[i].registration_id = r}

(* lines 403-423 *)
phase2_start(w, before, locked, after) ==
    /\ workers[w].pc = "start"
    /\ workers[w].phase = 2
    /\ MeetLocks(LockCost(before) + LockCost(locked) + LockCost(after))
    /\ IF Raised(before)
       THEN /\ Fail(w, DatabaseLocked)
            /\ UNCHANGED batch
       ELSE /\ batch' = IF Persisted(locked)
                        THEN [batch EXCEPT !.status = "processing"]
                        ELSE batch
            /\ IF Raised(locked) \/ Raised(after)
               THEN Fail(w, DatabaseLocked)
               ELSE workers' = [workers EXCEPT
                       ![w].people = registrations_with_photos(photos),
                       ![w].idx = 1,
                       ![w].pc = IF Owners(photos) = {} THEN "upload_begin" ELSE "copy"]
    /\ UNCHANGED <<call, photos, files, logs, triggers, response, registrations, processed_dir>>

(* lines 430-472: materialize one person's files.  The copies are made  *)
(* on disk before the commit and stay there whatever the commit does.   *)
phase2_copy(w, before, locked, after) ==
    LET me == workers[w]
        r == me.people[me.idx]
        person_photos == PersonPhotos(photos, r)
        copied == {i \in person_photos :
                      files[i].kind # "missing" /\ i \notin processed_dir[r]}
        next == IF me.idx < Len(me.people) THEN "copy" ELSE "upload_begin"
    IN
    /\ me.pc = "copy"
    /\ MeetLocks(LockCost(before) + LockCost(locked) + LockCost(after))
    /\ IF Raised(before)
       THEN /\ Fail(w, DatabaseLocked)
            /\ UNCHANGED <<photos, registrations, processed_dir>>
       ELSE /\ processed_dir' = [processed_dir EXCEPT ![r] = @ \cup copied]
            /\ photos' = IF Persisted(locked)
                         THEN [i \in 1..Len(photos) |->
                                 IF i \in copied
                                 THEN [photos[i] EXCEPT !.processed = TRUE]
                                 ELSE photos[i]]
                         ELSE photos
            /\ registrations' =
                 IF Persisted(locked)
                 THEN [registrations EXCEPT ![r].photo_count = Cardinality(person_photos)]
                 ELSE registrations
            /\ IF Raised(locked) \/ Raised(after)
               THEN Fail(w, DatabaseLocked)
               ELSE workers' = [workers EXCEPT
                       ![w].person_photos = person_photos,
                       ![w].idx = IF next = "copy" THEN me.idx + 1 ELSE 1,
                       ![w].pc = next]
    /\ UNCHANGED <<call, batch, files, logs, triggers, response>>

(* lines 477-493 and 571-582: entering the Drive block.  drive says     *)
(* whether DriveUploader is importable and can be set up.  An exception *)
(* inside the block is logged by the handler of line 571 and the phase  *)
(* goes on to the final metrics.                                        *)
DriveStates == {"ready", "unavailable", "setup_error"}

phase2_upload_begin(w, drive, before, after) ==
    LET me == workers[w] IN
    /\ me.pc = "upload_begin"
    /\ MeetLocks(LockCost(before) + LockCost(after))
    /\ IF Raised(before)
       THEN Fail(w, DatabaseLocked)
       ELSE IF me.people = <<>> \/ drive = "unavailable"
       THEN IF Raised(after)
            THEN Fail(w, DatabaseLocked)
            ELSE workers' = [workers EXCEPT ![w].pc = "final"]
       ELSE IF drive = "setup_error"
       THEN IF Raised(after)
            THEN Fail(w, DatabaseLocked)
            ELSE workers' = [workers EXCEPT ![w].pc = "final"]
       ELSE workers' = [workers EXCEPT ![w].pc = "upload", ![w].idx = 1]
    /\ UNCHANGED <<call, batch, photos, files, logs, triggers, response,
                   registrations, processed_dir>>

(* drive_uploader.py 392-394: the parameters upload_person_photos takes *)
upload_person_photos_parameters ==
    {"first_name", "last_name", "photo_paths", "progress_callback"}

(* photo_processor.py 523-529: the arguments of the call in Phase 2     *)
Phase2CallArguments ==
    {"first_name", "last_name", "photo_paths", "progress_callback",
     "event_folder_name"}

CallBinds == Phase2CallArguments \subseteq upload_person_photos_parameters

(* An upload loop that is left at the first person handled             *)
NextPersonStopsLoop(idx, total) == "final"

(* line 494: the for loop over registrations_with_photos goes on to the *)
(* next person, or ends after the last one                              *)
NextPerson(idx, total) == IF idx < total THEN "upload" ELSE "final"

(* lines 494-561: one person of the upload loop.  result_success is the *)
(* 'success' field of the uploader's result when the call is made.      *)
phase2_upload_person(w, result_success, before, locked, after) ==
    LET me == workers[w]
        r == me.people[me.idx]
        photo_paths == processed_dir[r]
        next == NextPerson(me.idx, Len(me.people))
        advance(results) ==
            workers' = [workers EXCEPT ![w].drive_results = results,
                                       ![w].idx = me.idx + 1,
                                       ![w].pc = next]
        (* handler of line 571: log, then the final metrics *)
        drive_block_error ==
            workers' = [workers EXCEPT ![w].pc = "final"]
    IN
    /\ me.pc = "upload"
    /\ MeetLocks(LockCost(before) + LockCost(locked) + LockCost(after))
    /\ IF Raised(before)
       THEN /\ drive_block_error
            /\ UNCHANGED <<photos, registrations>>
       ELSE IF photo_paths = {}
       THEN /\ IF Raised(after) THEN drive_block_error
                                ELSE advance(me.drive_results)
            /\ UNCHANGED <<photos, registrations>>
       ELSE IF ~CallBinds
       THEN (* TypeError, caught at line 555 *)
            /\ IF Raised(after)
               THEN drive_block_error
               ELSE advance(Append(me.drive_results, [person |-> r, success |-> FALSE]))
            /\ UNCHANGED <<photos, registrations>>
       ELSE IF result_success
       THEN /\ registrations' =
                 IF Persisted(locked)
                 THEN [registrations EXCEPT ![r].drive_folder_id = r,
                                            ![r].drive_share_link = r]
                 ELSE registrations
            /\ photos' = IF Persisted(locked)
                         THEN [i \in 1..Len(photos) |->
                                 IF i \in me.person_photos
                                 THEN [photos[i] EXCEPT !.uploaded_to_drive = TRUE]
                                 ELSE photos[i]]
                         ELSE photos
            /\ IF Raised(locked)
               THEN (* caught at line 555 *)
                    IF Raised(after)
                    THEN drive_block_error
                    ELSE advance(Append(me.drive_results,
                                        [person |-> r, success |-> FALSE]))
               ELSE IF Raised(after)
                    THEN advance(Append(Append(me.drive_results,
                                               [person |-> r, success |-> TRUE]),
                                        [person |-> r, success |-> FALSE]))
                    ELSE advance(Append(me.drive_results,
                                        [person |-> r, success |-> TRUE]))
       ELSE /\ IF Raised(after)
               THEN drive_block_error
               ELSE advance(Append(me.drive_results, [person |-> r, success |-> FALSE]))
            /\ UNCHANGED <<photos, registrations>>
    /\ UNCHANGED <<call, batch, files, logs, triggers, response, processed_dir>>

(* lines 584-611: final metrics.  Line 589 leaves people_found modified *)
(* in the session; line 590 reads self.unmatched_photos.                *)
phase2_final(w, locked, after) ==
    LET me == workers[w] IN
    /\ me.pc = "final"
    /\ MeetLocks(LockCost(locked) + LockCost(after))
    /\ IF "unmatched_photos" \notin ProcessorAttributes
       THEN /\ workers' = [workers EXCEPT ![w].pc = "except",
                                          ![w].exc = AttributeErrorText,
                                          ![w].dirty_people_found = TRUE]
            /\ UNCHANGED batch
       ELSE /\ batch' = IF Persisted(locked)
                        THEN [batch EXCEPT !.status = "completed",
                                           !.people_found = me.people_found,
                                           !.unmatched_photos = 0,
                                           !.processing_completed_at = TRUE]
                        ELSE batch
            /\ IF Raised(locked) \/ Raised(after)
               THEN Fail(w, DatabaseLocked)
               ELSE workers' = [workers EXCEPT ![w] = EndedWorker(me.phase)]
    /\ UNCHANGED <<call, photos, files, logs, triggers, response, registrations, processed_dir>>

(* lines 613-629: the phase boundary handler; its commit also flushes   *)
(* what line 589 left modified in the session.                          *)
phase2_except(w, locked) ==
    LET me == workers[w] IN
    /\ me.pc = "except"
    /\ me.phase = 2
    /\ MeetLocks(LockCost(locked))
    /\ batch' = IF Persisted(locked)
                THEN [batch EXCEPT
                        !.status = "error", !.error_message = me.exc,
                        !.people_found = IF me.dirty_people_found
                                         THEN me.people_found ELSE @]
                ELSE batch
    /\ workers' = [workers EXCEPT ![w] = EndedWorker(me.phase)]
    /\ UNCHANGED <<call, photos, files, logs, triggers, response, registrations, processed_dir>>

(* ------------------------------------------------------------------ *)
(* Specification                                                        *)
(* ------------------------------------------------------------------ *)
UploadStep == \E content \in FileContents : upload_photo_file(content)
StartStep == \E w \in 1..MaxTriggers, l1, l2 \in LockOutcomes :
                process_batch_start(w, l1, l2)
PhotoStep == \E w \in 1..MaxTriggers, l1, l2, l3 \in LockOutcomes :
                process_batch_photo(w, l1, l2, l3)
FinishStep == \E w \in 1..MaxTriggers, l1, l2, l3 \in LockOutcomes :
                process_batch_finish(w, l1, l2, l3)
ExceptStep == \E w \in 1..MaxTriggers, l1 \in LockOutcomes :
                process_batch_except(w, l1)

Phase2StartStep == \E w \in 1..MaxTriggers, l1, l2, l3 \in LockOutcomes :
                phase2_start(w, l1, l2, l3)
Phase2CopyStep == \E w \in 1..MaxTriggers, l1, l2, l3 \in LockOutcomes :
                phase2_copy(w, l1, l2, l3)
Phase2UploadBeginStep ==
    \E w \in 1..MaxTriggers, d \in DriveStates, l1, l2 \in LockOutcomes :
        phase2_upload_begin(w, d, l1, l2)
Phase2UploadPersonStep ==
    \E w \in 1..MaxTriggers, ok \in BOOLEAN, l1, l2, l3 \in LockOutcomes :
        phase2_upload_person(w, ok, l1, l2, l3)
Phase2FinalStep == \E w \in 1..MaxTriggers, l1, l2 \in LockOutcomes :
                phase2_final(w, l1, l2)
Phase2ExceptStep == \E w \in 1..MaxTriggers, l1 \in LockOutcomes :
                phase2_except(w, l1)

Next ==
    \/ UploadStep
    \/ mark_batch_uploaded
    \/ start_batch_processing
    \/ StartStep
    \/ PhotoStep
    \/ FinishStep
    \/ ExceptStep
    \/ start_phase2_upload
    \/ Phase2StartStep
    \/ Phase2CopyStep
    \/ Phase2UploadBeginStep
    \/ Phase2UploadPersonStep
    \/ Phase2FinalStep
    \/ Phase2ExceptStep

Spec == Init /\ [][Next]_vars

(* The batch of the spec's scenario, uploaded and marked uploaded:      *)
(* 001.jpg, 002_qr_alice.jpg, 003.jpg, 004_qr_bob.jpg, 005.jpg          *)
ScenarioFiles ==
    <<FilePlain, FileQR(PayloadOf(Alice)), FilePlain, FileQR(PayloadOf(Bob)), FilePlain>>

InitScenario ==
    /\ batch = [NewBatch EXCEPT !.status = "uploaded"]
    /\ photos = [i \in 1..Len(ScenarioFiles) |-> NewPhoto]
    /\ files = ScenarioFiles
    /\ logs = {}
    /\ workers = [w \in 1..MaxTriggers |-> IdleWorker]
    /\ triggers = 0
    /\ response = 0
    /\ locks = 0
    /\ registrations = [r \in RegistrationIds |-> NewRegistration]
    /\ processed_dir = [r \in RegistrationIds |-> {}]
    /\ call = NoCall

NextScenario ==
    \/ start_batch_processing
    \/ StartStep
    \/ PhotoStep
    \/ FinishStep
    \/ ExceptStep

SpecScenario == InitScenario /\ [][NextScenario]_vars

(* A batch at the review gate: Phase 1 has run once over files without  *)
(* meeting a locked database.  GroupedOwner is the owner that run       *)
(* leaves on photo i.                                                   *)
RECURSIVE CursorAfter(_, _)
CursorAfter(fs, i) ==
    IF i = 0 THEN NULL
    ELSE LET qr_result == detect_qr_in_image(fs[i])
             registration == _match_registration(qr_result.parsed_data)
         IN IF qr_result.detected /\ registration # NULL
            THEN registration
            ELSE CursorAfter(fs, i - 1)

GroupedOwner(fs, i) ==
    LET qr_result == detect_qr_in_image(fs[i]) IN
    IF fs[i].kind = "missing" THEN NULL
    ELSE IF qr_result.detected
         THEN _match_registration(qr_result.parsed_data)
         ELSE CursorAfter(fs, i - 1)

MarkersMatched(fs) ==
    Cardinality({i \in 1..Len(fs) :
                    detect_qr_in_image(fs[i]).detected
                    /\ _match_registration(detect_qr_in_image(fs[i]).parsed_data) # NULL})

ReviewedPhotos(fs) ==
    [i \in 1..Len(fs) |->
        [NewPhoto EXCEPT !.registration_id = GroupedOwner(fs, i),
                         !.is_qr_code = detect_qr_in_image(fs[i]).detected]]

(* Photos taken between and of the markers of registered people        *)
ReviewedContents == {FilePlain} \cup {FileQR(PayloadOf(r)) : r \in RegistrationIds}

InitReviewed ==
    /\ files \in UNION {[1..n -> ReviewedContents] : n \in 1..MaxPhotos}
    /\ photos = ReviewedPhotos(files)
    /\ batch = [NewBatch EXCEPT !.status = "awaiting_review",
                                !.people_found = MarkersMatched(files),
                                !.unmatched_photos = UnmatchedCount(photos)]
    /\ logs = {LogEntry("photo_missing", "error", i) :
                 i \in {j \in 1..Len(files) : files[j].kind = "missing"}}
    /\ workers = [w \in 1..MaxTriggers |-> IdleWorker]
    /\ triggers = 0
    /\ response = 0
    /\ locks = 0
    /\ registrations = [r \in RegistrationIds |-> NewRegistration]
    /\ processed_dir = [r \in RegistrationIds |-> {}]
    /\ call = NoCall

NextPhase2 ==
    \/ start_phase2_upload
    \/ Phase2StartStep
    \/ Phase2CopyStep
    \/ Phase2UploadBeginStep
    \/ Phase2UploadPersonStep
    \/ Phase2FinalStep
    \/ Phase2ExceptStep

SpecPhase2 == InitReviewed /\ [][NextPhase2]_vars

(* ------------------------------------------------------------------ *)
(* Phase 1 over marker photos whose payload does not parse              *)
(* ------------------------------------------------------------------ *)
(* A photo showing a QR code whose text parse_qr_data rejects           *)
FileMalformed == [kind |-> "malformed", payload |-> NoPayload]

MarkerContents == {FilePlain, FileMalformed, FileQR(PayloadOf(Alice))}

(* An uploaded batch of such photos, before its first Phase 1 run       *)
InitMarkers ==
    /\ files \in UNION {[1..n -> MarkerContents] : n \in 1..MaxPhotos}
    /\ photos = [i \in 1..Len(files) |-> NewPhoto]
    /\ batch = [NewBatch EXCEPT !.status = "uploaded"]
    /\ logs = {}
    /\ workers = [w \in 1..MaxTriggers |-> IdleWorker]
    /\ triggers = 0
    /\ response = 0
    /\ locks = 0
    /\ registrations = [r \in RegistrationIds |-> NewRegistration]
    /\ processed_dir = [r \in RegistrationIds |-> {}]
    /\ call = NoCall

SpecMarkers == InitMarkers /\ [][NextScenario]_vars

(* ------------------------------------------------------------------ *)
(* Phase 2 after Phase 2 of an earlier batch                            *)
(* ------------------------------------------------------------------ *)
(* Files that Phase 2 of an earlier batch copied into                   *)
(* uploads/processed/<registration id>: the directory is named after    *)
(* the registration alone and no code removes it.  101 is a file name   *)
(* no photo of this batch has.                                          *)
EarlierBatchFiles == {101}

(* The batch at the review gate, the people's directories holding what  *)
(* the earlier batch left there                                         *)
InitEarlierBatch ==
    /\ files \in UNION {[1..n -> ReviewedContents] : n \in 1..MaxPhotos}
    /\ photos = ReviewedPhotos(files)
    /\ batch = [NewBatch EXCEPT !.status = "awaiting_review",
                                !.people_found = MarkersMatched(files),
                                !.unmatched_photos = UnmatchedCount(photos)]
    /\ logs = {}
    /\ workers = [w \in 1..MaxTriggers |-> IdleWorker]
    /\ triggers = 0
    /\ response = 0
    /\ locks = 0
    /\ registrations = [r \in RegistrationIds |-> NewRegistration]
    /\ processed_dir \in [RegistrationIds -> SUBSET EarlierBatchFiles]
    /\ call = NoCall

SpecEarlierBatch == InitEarlierBatch /\ [][NextPhase2]_vars

TypeOK ==
    /\ batch.status \in {"uploading", "uploaded", "processing",
                         "awaiting_review", "completed", "error"}
    /\ Len(photos) = Len(files)
    /\ Len(photos) <= MaxPhotos
    /\ triggers \in 0..MaxTriggers

(* ------------------------------------------------------------------ *)
(* Functions of the core taken on their own                             *)
(* ------------------------------------------------------------------ *)
(* The pipeline is at rest while one function is called.                *)
PipelineAtRest ==
    /\ batch = NewBatch
    /\ photos = <<>>
    /\ files = <<>>
    /\ logs = {}
    /\ workers = [w \in 1..MaxTriggers |-> IdleWorker]
    /\ triggers = 0
    /\ response = 0
    /\ locks = 0
    /\ registrations = [r \in RegistrationIds |-> NewRegistration]
    /\ processed_dir = [r \in RegistrationIds |-> {}]

(* db_commit_with_retry() called while the database answers 'database   *)
(* is locked' to the first locked attempts.                             *)
CommitCalls ==
    {[fn |-> "db_commit_with_retry", done |-> FALSE, locked |-> k] :
        k \in 0..max_attempts + 1}

call_db_commit_with_retry ==
    /\ call.fn = "db_commit_with_retry"
    /\ ~call.done
    /\ call' = [fn |-> call.fn, done |-> TRUE, locked |-> call.locked,
                result |-> db_commit_with_retry(call.locked)]
    /\ UNCHANGED pipeline

(* ------------------------------------------------------------------ *)
(* DriveUploader                                                        *)
(* ------------------------------------------------------------------ *)
MaxFiles == 5

DriveFolderId == 1
DriveShareLink == 1

(* upload_photos_batch: the files are uploaded one by one, fails is the *)
(* set of positions whose upload_photo returns (False, None).           *)
RECURSIVE upload_photos_from(_, _, _, _, _)
upload_photos_from(idx, total, fails, successful, failed) ==
    IF idx > total
    THEN [successful |-> successful, failed |-> failed]
    ELSE IF idx \notin fails
         THEN upload_photos_from(idx + 1, total, fails, successful + 1, failed)
         ELSE upload_photos_from(idx + 1, total, fails, successful, failed + 1)

upload_photos_batch(total, fails) == upload_photos_from(1, total, fails, 0, 0)

(* the result built by the handler of lines 456-466                     *)
UploadFailure(total) ==
    [success |-> FALSE, folder_id |-> NULL, share_link |-> NULL,
     photos_uploaded |-> 0, photos_failed |-> total]

(* An uploader that asks for success on every file                      *)
upload_person_photos_all_or_nothing(total, fails, folder_ok, link_ok) ==
    LET uploaded == upload_photos_batch(total, fails) IN
    IF ~folder_ok \/ uploaded.failed > 0 \/ ~link_ok
    THEN UploadFailure(total)
    ELSE [success |-> uploaded.successful > 0,
          folder_id |-> DriveFolderId, share_link |-> DriveShareLink,
          photos_uploaded |-> uploaded.successful,
          photos_failed |-> uploaded.failed]

(* An uploader without the check of lines 436-438                       *)
upload_person_photos_unchecked(total, fails, folder_ok, link_ok) ==
    LET uploaded == upload_photos_batch(total, fails) IN
    IF ~folder_ok \/ ~link_ok
    THEN UploadFailure(total)
    ELSE [success |-> uploaded.successful > 0,
          folder_id |-> DriveFolderId, share_link |-> DriveShareLink,
          photos_uploaded |-> uploaded.successful,
          photos_failed |-> uploaded.failed]

(* upload_person_photos(first_name, last_name, photo_paths) with        *)
(* len(photo_paths) = total; folder_ok and link_ok tell whether         *)
(* create_person_folder and generate_share_link return or raise.        *)
upload_person_photos(total, fails, folder_ok, link_ok) ==
    LET uploaded == upload_photos_batch(total, fails) IN
    IF ~folder_ok
    THEN UploadFailure(total)
    ELSE IF uploaded.successful = 0 /\ uploaded.failed > 0
    THEN UploadFailure(total)
    ELSE IF ~link_ok
    THEN UploadFailure(total)
    ELSE [success |-> uploaded.successful > 0,
          folder_id |-> DriveFolderId, share_link |-> DriveShareLink,
          photos_uploaded |-> uploaded.successful,
          photos_failed |-> uploaded.failed]

UploadInputs ==
    {x \in [total : 0..MaxFiles, fails : SUBSET (1..MaxFiles),
            folder_ok : BOOLEAN, link_ok : BOOLEAN] :
        x.fails \subseteq 1..x.total}

UploadCalls ==
    {[fn |-> "upload_person_photos", done |-> FALSE, total |-> x.total,
      fails |-> x.fails, folder_ok |-> x.folder_ok, link_ok |-> x.link_ok] :
        x \in UploadInputs}

call_upload_person_photos ==
    /\ call.fn = "upload_person_photos"
    /\ ~call.done
    /\ call' = [fn |-> call.fn, done |-> TRUE, total |-> call.total,
                fails |-> call.fails, folder_ok |-> call.folder_ok,
                link_ok |-> call.link_ok,
                result |-> upload_person_photos(call.total, call.fails,
                                                call.folder_ok, call.link_ok)]
    /\ UNCHANGED pipeline

(* ------------------------------------------------------------------ *)
(* The upload loop of Phase 2 as a function of the list of people       *)
(* ------------------------------------------------------------------ *)
MaxPersonFiles == 2

(* What Drive does with one person's files: how many files the person's *)
(* folder in processed/ holds, which of them fail to upload, whether    *)
(* the folder and the link can be made.                                 *)
PersonInputs == {x \in UploadInputs : x.total <= MaxPersonFiles}

(* lines 494-561 for the people of the list, in the order of the list;  *)
(* every commit succeeds at its first attempt.                          *)
RECURSIVE upload_people(_, _, _)
upload_people(people, drive, drive_results) ==
    IF people = <<>>
    THEN drive_results
    ELSE LET r == Head(people)
             x == drive[r]
         IN IF x.total = 0
            THEN upload_people(Tail(people), drive, drive_results)
            ELSE IF ~CallBinds
            THEN upload_people(Tail(people), drive,
                               Append(drive_results, [person |-> r, success |-> FALSE]))
            ELSE upload_people(Tail(people), drive,
                    Append(drive_results,
                           [person |-> r,
                            success |-> upload_person_photos(x.total, x.fails,
                                            x.folder_ok, x.link_ok).success]))

(* An upload loop that handles the first person of the list only        *)
phase2_drive_results_first_only(people, drive) ==
    upload_people(IF people = <<>> THEN <<>> ELSE <<Head(people)>>, drive, <<>>)

phase2_drive_results(people, drive) == upload_people(people, drive, <<>>)

(* line 564 *)
successful_uploads(drive_results) ==
    Cardinality({i \in 1..Len(drive_results) : drive_results[i].success})

(* The lists of people in which nobody appears twice                   *)
PeopleLists ==
    {q \in UNION {[1..n -> RegistrationIds] : n \in 0..Cardinality(RegistrationIds)} :
        \A i, j \in 1..Len(q) : i # j => q[i] # q[j]}

LoopCalls ==
    {[fn |-> "phase2_drive_results", done |-> FALSE, people |-> q, drive |-> d] :
        q \in PeopleLists, d \in [RegistrationIds -> PersonInputs]}

call_phase2_drive_results ==
    /\ call.fn = "phase2_drive_results"
    /\ ~call.done
    /\ call' = [fn |-> call.fn, done |-> TRUE, people |-> call.people,
                drive |-> call.drive,
                result |-> phase2_drive_results(call.people, call.drive)]
    /\ UNCHANGED pipeline

(* ------------------------------------------------------------------ *)
(* Payload codec: qr_generator.generate_qr_data, qr_detector.parse_qr_data *)
(* ------------------------------------------------------------------ *)
(* A string is the sequence of its characters.                          *)
MaxFields == 6

DigitChars == <<"0", "1", "2", "3", "4", "5", "6", "7", "8", "9">>
Digits == {DigitChars[i] : i \in 1..10}

(* str(n) of a non-negative int, as the f-string formats it             *)
RECURSIVE Str(_)
Str(n) ==
    IF n < 10 THEN <<DigitChars[n + 1]>>
    ELSE Str(n \div 10) \o <<DigitChars[(n % 10) + 1]>>

generate_qr_data_swapped(first_name, last_name, email, registration_id, qr_token) ==
    last_name \o <<"|">> \o first_name \o <<"|">> \o email \o <<"|">>
        \o Str(registration_id) \o <<"|">> \o qr_token

generate_qr_data(first_name, last_name, email, registration_id, qr_token) ==
    first_name \o <<"|">> \o last_name \o <<"|">> \o email \o <<"|">>
        \o Str(registration_id) \o <<"|">> \o qr_token

(* str.split('|') *)
RECURSIVE Split(_)
Split(s) ==
    IF s = <<>> THEN << <<>> >>
    ELSE LET rest == Split(Tail(s)) IN
         IF Head(s) = "|"
         THEN << <<>> >> \o rest
         ELSE << <<Head(s)>> \o Head(rest) >> \o Tail(rest)

(* str.strip() *)
RECURSIVE StripLeft(_)
StripLeft(s) == IF s # <<>> /\ Head(s) = " " THEN StripLeft(Tail(s)) ELSE s

RECURSIVE StripRight(_)
StripRight(s) ==
    IF s # <<>> /\ s[Len(s)] = " " THEN StripRight(SubSeq(s, 1, Len(s) - 1)) ELSE s

Strip(s) == StripRight(StripLeft(s))

(* str.lower() on the letters of the model                              *)
Lower(s) == [i \in 1..Len(s) |-> IF s[i] = "A" THEN "a" ELSE s[i]]

(* int(s) returns for a stripped s: an optional sign and decimal digits *)
IsIntLiteral(s) ==
    LET body == IF s # <<>> /\ s[1] \in {"+", "-"} THEN Tail(s) ELSE s IN
    /\ body # <<>>
    /\ \A i \in 1..Len(body) : body[i] \in Digits

NoParsed ==
    [first_name |-> <<>>, last_name |-> <<>>, email |-> <<>>,
     registration_id |-> <<>>, qr_token |-> <<>>]

(* the return value None *)
None == [ok |-> FALSE, parsed |-> NoParsed]

(* A parser that does not validate registration_id                      *)
parse_qr_data_any_id(qr_string) ==
    IF qr_string = <<>> THEN None
    ELSE LET parts == Split(qr_string) IN
         IF Len(parts) # 5 THEN None
         ELSE LET parsed ==
                    [first_name |-> Strip(parts[1]),
                     last_name |-> Strip(parts[2]),
                     email |-> Lower(Strip(parts[3])),
                     registration_id |-> Strip(parts[4]),
                     qr_token |-> Strip(parts[5])]
              IN IF \E k \in DOMAIN parsed : parsed[k] = <<>>
                 THEN None
                 ELSE [ok |-> TRUE, parsed |-> parsed]

parse_qr_data(qr_string) ==
    IF qr_string = <<>> THEN None
    ELSE LET parts == Split(qr_string) IN
         IF Len(parts) # 5 THEN None
         ELSE LET parsed ==
                    [first_name |-> Strip(parts[1]),
                     last_name |-> Strip(parts[2]),
                     email |-> Lower(Strip(parts[3])),
                     registration_id |-> Strip(parts[4]),
                     qr_token |-> Strip(parts[5])]
              IN IF \E k \in DOMAIN parsed : parsed[k] = <<>>
                 THEN None
                 ELSE IF ~IsIntLiteral(parsed.registration_id)
                      THEN None
                      ELSE [ok |-> TRUE, parsed |-> parsed]

(* Field texts without pipe characters: non-empty ones for the tuples   *)
(* that are encoded, any for the strings that are decoded.              *)
TextFields == { <<"a">>, <<"A">>, <<" ", "a">>, <<" ">> }
RegistrationNumbers == {7, 12}
RawFields == { <<>>, <<" ">>, <<"a">>, <<"1">>, <<"+", "1">> }

RECURSIVE Join(_)
Join(fields) ==
    IF Len(fields) = 1 THEN fields[1]
    ELSE Head(fields) \o <<"|">> \o Join(Tail(fields))

NoSource ==
    [given |-> FALSE, first_name |-> <<>>, last_name |-> <<>>, email |-> <<>>,
     registration_id |-> 0, qr_token |-> <<>>]

GenerateCalls ==
    {[fn |-> "generate_qr_data", done |-> FALSE,
      source |-> [given |-> TRUE, first_name |-> f, last_name |-> l, email |-> e,
                  registration_id |-> n, qr_token |-> t]] :
        f \in TextFields, l \in TextFields, e \in TextFields,
        n \in RegistrationNumbers, t \in TextFields}

ParseCalls ==
    {[fn |-> "parse_qr_data", done |-> FALSE, source |-> NoSource,
      fields |-> fields, qr_string |-> Join(fields)] :
        fields \in UNION {[1..n -> RawFields] : n \in 1..MaxFields}}

(* the encoded payload goes on to the decoder                           *)
call_generate_qr_data ==
    /\ call.fn = "generate_qr_data"
    /\ call' = [fn |-> "parse_qr_data", done |-> FALSE, source |-> call.source,
                fields |-> <<call.source.first_name, call.source.last_name,
                             call.source.email, Str(call.source.registration_id),
                             call.source.qr_token>>,
                qr_string |-> generate_qr_data(call.source.first_name,
                                               call.source.last_name,
                                               call.source.email,
                                               call.source.registration_id,
                                               call.source.qr_token)]
    /\ UNCHANGED pipeline

call_parse_qr_data ==
    /\ call.fn = "parse_qr_data"
    /\ ~call.done
    /\ call' = [fn |-> call.fn, done |-> TRUE, source |-> call.source,
                fields |-> call.fields, qr_string |-> call.qr_string,
                result |-> parse_qr_data(call.qr_string)]
    /\ UNCHANGED pipeline

(* ------------------------------------------------------------------ *)
(* Registration matcher                                                 *)
(* ------------------------------------------------------------------ *)
(* Payloads whose fields point to the same, to different or to no       *)
(* registration; "" and NULL stand for a field that is absent or empty. *)
MatchPayloads ==
    [qr_token : {"", "token-alice", "token-bob", "token-zed"},
     registration_id : {NULL, Alice, Bob, 9},
     name : {"alice", "bob", "zed"}]

MatchCalls ==
    {[fn |-> "_match_registration", done |-> FALSE, qr_data |-> q] :
        q \in MatchPayloads}

call_match_registration ==
    /\ call.fn = "_match_registration"
    /\ ~call.done
    /\ call' = [fn |-> call.fn, done |-> TRUE, qr_data |-> call.qr_data,
                result |-> _match_registration(call.qr_data),
                log |-> _match_registration_log(call.qr_data)]
    /\ UNCHANGED pipeline

(* ------------------------------------------------------------------ *)
(* Drive folders: DriveUploader.create_person_folder                    *)
(* ------------------------------------------------------------------ *)
(* Calls made one after the other on the same Drive                     *)
MaxFolderCalls == 2

(* Settings of folder_name_format                                       *)
FolderFormats ==
    {"FirstName_LastName", "LastName_FirstName", "Event_YYYYMMDD/FirstName_LastName"}

(* _get_folder_name: the folder name as its parts between '/'; a part   *)
(* is the pair of words around its '_'.  today is datetime.now() as     *)
(* YYYYMMDD.  The names are taken as already free of special            *)
(* characters.                                                          *)
_get_folder_name(format_type, first_name, last_name, today) ==
    IF format_type = "LastName_FirstName"
    THEN << <<last_name, first_name>> >>
    ELSE IF format_type = "Event_YYYYMMDD/FirstName_LastName"
         THEN << <<"Event", today>>, <<first_name, last_name>> >>
         ELSE << <<first_name, last_name>> >>

(* Drive as the set of its folders.  files().create always makes a new  *)
(* folder with a new id: Drive does not keep names unique.              *)
create_folder(drive, folder_name, parent_folder_id) ==
    LET folder_id == Cardinality(drive) + 1 IN
    [drive |-> drive \cup {[id |-> folder_id, name |-> folder_name,
                            parent |-> parent_folder_id]},
     folder_id |-> folder_id]

(* files().list with pageSize=1: a folder of that name, under parent_id *)
(* when one is given                                                    *)
_find_folder(drive, folder_name, parent_id) ==
    LET found == {f.id : f \in {g \in drive :
                                  /\ g.name = folder_name
                                  /\ parent_id = NULL \/ g.parent = parent_id}}
    IN IF found = {} THEN NULL ELSE First(found)

(* lines 201-208: the parts before the last are looked up and created   *)
(* only when absent                                                     *)
RECURSIVE create_parent_folders(_, _, _, _)
create_parent_folders(drive, parts, i, current_parent) ==
    IF i >= Len(parts)
    THEN [drive |-> drive, current_parent |-> current_parent]
    ELSE LET existing_folder == _find_folder(drive, parts[i], current_parent) IN
         IF existing_folder # NULL
         THEN create_parent_folders(drive, parts, i + 1, existing_folder)
         ELSE LET made == create_folder(drive, parts[i], current_parent) IN
              create_parent_folders(made.drive, parts, i + 1, made.folder_id)

(* lines 184-220: the final folder is created without a lookup          *)
create_person_folder(drive, folder_name, parent_folder_id) ==
    LET nested == create_parent_folders(drive, folder_name, 1, parent_folder_id)
        final_folder_name == folder_name[Len(folder_name)]
    IN create_folder(nested.drive, final_folder_name, nested.current_parent)

FolderRequests ==
    [first_name : {"alice", "bob"}, last_name : {"smith"},
     today : {"20240601", "20240602"}]

(* parent_folder_id of the configuration: none, or a folder of Drive    *)
ParentFolders == {NULL, 100}

FolderCalls ==
    {[fn |-> "create_person_folder", done |-> FALSE, format_type |-> f,
      parent_folder_id |-> p, requests |-> q, drive |-> {}, folder_ids |-> <<>>] :
        f \in FolderFormats, p \in ParentFolders,
        q \in [1..MaxFolderCalls -> FolderRequests]}

(* The next of the calls: upload_person_photos line 420                 *)
call_create_person_folder ==
    /\ call.fn = "create_person_folder"
    /\ ~call.done
    /\ LET k == Len(call.folder_ids) + 1
           request == call.requests[k]
           made == create_person_folder(
                       call.drive,
                       _get_folder_name(call.format_type, request.first_name,
                                        request.last_name, request.today),
                       call.parent_folder_id)
       IN call' = [call EXCEPT !.drive = made.drive,
                               !.folder_ids = Append(@, made.folder_id),
                               !.done = (k = MaxFolderCalls)]
    /\ UNCHANGED pipeline

(* ------------------------------------------------------------------ *)
(* QR detector calls                                                    *)
(* ------------------------------------------------------------------ *)
ImageSizes == {<<800, 600>>, <<1600, 1200>>, <<900, 1600>>}

DirectFrames == [pyzbar : BackendOutcomes, opencv : BackendOutcomes]

(* The code is decodable in no preprocessed frame or in one of them     *)
VisibleSets == {{}} \cup {{s} : s \in StrategyNames \ {"image"}}

DetectImages ==
    {Image(FALSE, FALSE, <<800, 600>>, NoCode, {}, NoPayload),
     Image(TRUE, FALSE, <<800, 600>>, NoCode, {}, NoPayload)}
    \cup {Image(TRUE, TRUE, size, direct, visible, PayloadOf(Alice)) :
            size \in ImageSizes, direct \in DirectFrames, visible \in VisibleSets}

DetectCalls ==
    {[fn |-> "detect_qr_in_image", done |-> FALSE, image |-> i, enhance |-> e] :
        i \in DetectImages, e \in BOOLEAN}

call_detect_qr_in_image ==
    /\ call.fn = "detect_qr_in_image"
    /\ ~call.done
    /\ call' = [fn |-> call.fn, done |-> TRUE, image |-> call.image,
                enhance |-> call.enhance,
                result |-> detect_qr_in_image_enhance(call.image, call.enhance)]
    /\ UNCHANGED pipeline

(* ------------------------------------------------------------------ *)
(* One call of one function                                             *)
(* ------------------------------------------------------------------ *)
InitCalls ==
    /\ PipelineAtRest
    /\ call \in CommitCalls \cup UploadCalls \cup LoopCalls \cup GenerateCalls
                \cup ParseCalls \cup MatchCalls \cup FolderCalls
                \cup DetectCalls

NextCalls ==
    \/ call_db_commit_with_retry
    \/ call_upload_person_photos
    \/ call_phase2_drive_results
    \/ call_generate_qr_data
    \/ call_parse_qr_data
    \/ call_match_registration
    \/ call_create_person_folder
    \/ call_detect_qr_in_image

SpecCalls == InitCalls /\ [][NextCalls]_vars


(* ------------------------------------------------------------------ *)
(* Properties                                                           *)
(* ------------------------------------------------------------------ *)
WorkerIds == 1..MaxTriggers

(* The registration matched by the marker of photo i, NULL when photo i *)
(* carries no matched marker.                                           *)
MatchedMarker(i) ==
    LET qr_result == detect_qr_in_image(files[i]) IN
    IF qr_result.detected THEN _match_registration(qr_result.parsed_data) ELSE NULL

(* The person of the last matched marker at or before photo i.          *)
RECURSIVE RunOwner(_)
RunOwner(i) ==
    IF i = 0 THEN NULL
    ELSE IF MatchedMarker(i) # NULL THEN MatchedMarker(i) ELSE RunOwner(i - 1)

(* Worker w completes process_batch normally in this step.              *)
CompletesPhase1(w) ==
    /\ workers[w].phase = 1
    /\ workers[w].pc = "finish"
    /\ workers'[w].pc = "done"

(* C1: after a complete Phase 1 run, the photos owned by a person are   *)
(* exactly the contiguous runs, in filename order, from that person's   *)
(* matched marker up to the photo before the next matched marker or the *)
(* end of the batch.                                                    *)
C1_ContiguousRuns ==
    [][\A w \in WorkerIds :
         CompletesPhase1(w) =>
           \A r \in RegistrationIds :
             {i \in 1..workers[w].total_photos : photos'[i].registration_id = r}
               = {i \in 1..workers[w].total_photos : RunOwner(i) = r}]_vars

(* C2: on the scenario batch a complete Phase 1 run leaves 001 without  *)
(* owner, 002 and 003 with Alice, 004 and 005 with Bob, and records     *)
(* people_found = 2 and unmatched_photos = 0.                           *)
C2_Scenario ==
    [][\A w \in WorkerIds :
         CompletesPhase1(w) =>
           /\ [i \in 1..Len(photos') |-> photos'[i].registration_id]
                = <<NULL, Alice, Alice, Bob, Bob>>
           /\ batch'.people_found = 2
           /\ batch'.unmatched_photos = 0]_vars

(* C3: a photo with no matched marker at or before it in filename order *)
(* never has an owner, in any state of any run or re-run of Phase 1.    *)
C3_BeforeFirstMarkerUnowned ==
    \A i \in 1..Len(photos) :
        RunOwner(i) = NULL => photos[i].registration_id = NULL

(* a re-run of Phase 1 has completed on a batch that an earlier run left *)
(* in error, with a photo ahead of the first matched marker             *)
C3_Witness ==
    /\ batch.error_message # ""
    /\ batch.status = "awaiting_review"
    /\ \A w \in WorkerIds : workers[w].phase = 1 /\ workers[w].pc = "done"
    /\ Len(photos) = 2
    /\ RunOwner(1) = NULL /\ files[1].kind = "plain"
    /\ photos[1].registration_id = NULL
    /\ photos[2].registration_id # NULL

(* Worker w finishes the loop iteration of photo i without raising.     *)
Iterates(w, i) ==
    /\ workers[w].pc = "loop"
    /\ workers[w].idx = i
    /\ workers'[w].pc \in {"loop", "finish"}
    /\ workers'[w].idx = i + 1

(* C4: an iteration over a photo whose marker is detected but matches   *)
(* no registration flags the photo as QR marker, leaves it without      *)
(* owner (one more unmatched photo) and keeps the current person.       *)
C4_UnmatchedMarker ==
    [][\A w \in WorkerIds : \A i \in 1..Len(photos) :
         (Iterates(w, i) /\ files[i].kind = "qr" /\ MatchedMarker(i) = NULL) =>
           /\ photos'[i].is_qr_code
           /\ photos'[i].registration_id = NULL
           /\ workers'[w].current_registration_id = workers[w].current_registration_id
           /\ workers'[w].people_found = workers[w].people_found]_vars

(* C5: an iteration over a photo whose file is missing appends an       *)
(* error-level log entry for it and leaves the photo row and the        *)
(* current person unchanged on the way to the next photo.               *)
C5_MissingFile ==
    [][\A w \in WorkerIds : \A i \in 1..Len(photos) :
         (Iterates(w, i) /\ files[i].kind = "missing") =>
           /\ LogEntry("photo_missing", "error", i) \in logs'
           /\ photos'[i] = photos[i]
           /\ workers'[w].current_registration_id = workers[w].current_registration_id]_vars

(* C6: a Phase 2 run during which no persistence write failed ends with *)
(* status completed and processing_completed_at set.                    *)
C6_Phase2Completes ==
    [][\A w \in WorkerIds :
         (workers[w].phase = 2 /\ workers[w].pc # "done" /\ workers'[w].pc = "done"
            /\ locks' = 0) =>
           /\ batch'.status = "completed"
           /\ batch'.processing_completed_at]_vars

(* C7: when the handler of a phase has run for an exception raised in   *)
(* the phase body, the batch is in status error with the exception text *)
(* as error_message.                                                    *)
C7_ErrorRecorded ==
    [][\A w \in WorkerIds :
         (workers[w].pc = "except" /\ workers'[w].pc = "done") =>
           /\ batch'.status = "error"
           /\ batch'.error_message = workers[w].exc]_vars

(* C8: at most one worker is inside the photo loop or the completion of *)
(* process_batch at any time.                                           *)
InProcessBatch(w) == workers[w].phase = 1 /\ workers[w].pc \in {"loop", "finish"}

C8_OneWorker == Cardinality({w \in WorkerIds : InProcessBatch(w)}) <= 1

(* C9: start_batch_processing answers 200 and starts a Phase 1 worker   *)
(* when the batch is uploaded or in error; in any other status it       *)
(* answers 400, starts no worker and changes neither batch nor photos.  *)
StartTriggered ==
    /\ triggers' = triggers + 1
    /\ workers'[triggers'].phase # 2

C9_StartGuard ==
    [][StartTriggered =>
         IF batch.status \in {"uploaded", "error"}
         THEN /\ response' = 200
              /\ workers'[triggers'].phase = 1
              /\ workers'[triggers'].pc = "start"
         ELSE /\ response' = 400
              /\ workers' = workers
              /\ batch' = batch
              /\ photos' = photos]_vars

(* a start request was refused while a run had the batch in processing *)
C9_Witness ==
    /\ response = 400
    /\ batch.status = "processing"
    /\ \E w \in WorkerIds : workers[w].phase = 1 /\ workers[w].pc = "loop"

(* C10: while the batch is awaiting review and Phase 2 has not been     *)
(* triggered, no step changes a photo row, the batch counters or the    *)
(* materialized files.                                                  *)
Phase2Triggered == \E w \in WorkerIds : workers[w].phase = 2

C10_ReviewGate ==
    [][(batch.status = "awaiting_review" /\ ~Phase2Triggered') =>
         /\ \A i \in 1..Len(photos) : photos'[i] = photos[i]
         /\ batch'.people_found = batch.people_found
         /\ batch'.unmatched_photos = batch.unmatched_photos
         /\ processed_dir' = processed_dir]_vars

(* C11: db_commit_with_retry makes at most max_attempts commit attempts: *)
(* it returns True at the first attempt that succeeds, retries after    *)
(* every locked attempt while attempts remain, and raises when the last *)
(* attempt is locked.                                                   *)
C11_BoundedRetry ==
    (call.fn = "db_commit_with_retry" /\ call.done) =>
        /\ call.result.attempts <= max_attempts
        /\ call.locked < max_attempts =>
              /\ call.result.ret = "True"
              /\ call.result.attempts = call.locked + 1
        /\ call.locked >= max_attempts =>
              /\ call.result.ret = "raise"
              /\ call.result.attempts = max_attempts

(* every attempt but the last was locked and the last one succeeded     *)
C11_Witness ==
    /\ call.fn = "db_commit_with_retry"
    /\ call.done
    /\ call.locked = max_attempts - 1
    /\ call.result.ret = "True"
    /\ call.result.attempts = max_attempts

(* The call of upload_person_photos has returned after uploading into   *)
(* the person's folder.                                                 *)
UploadReturned ==
    /\ call.fn = "upload_person_photos"
    /\ call.done
    /\ call.folder_ok

PartialFailure ==
    /\ 0 < Cardinality(call.fails)
    /\ Cardinality(call.fails) < call.total

C14_TotalFailure ==
    (call.fn = "upload_person_photos" /\ call.done
       /\ call.total >= 1 /\ call.fails = 1..call.total) =>
        /\ ~call.result.success
        /\ call.result.share_link = NULL
        /\ call.result.photos_uploaded = 0
        /\ call.result.photos_failed = call.total

(* three files, all failing, in a folder that was created and could be  *)
(* shared                                                               *)
C14_Witness ==
    /\ UploadReturned
    /\ call.link_ok
    /\ call.total = 3
    /\ call.fails = {1, 2, 3}
    /\ ~call.result.success

(* C12: in the Phase 2 upload loop, the step for a person owning at     *)
(* least one materialized file makes the upload call for that person    *)
(* and records its outcome, whatever the outcomes (failure result or    *)
(* exception) recorded for the people before, and the loop then goes on *)
(* to the next person of the list.  The loop is cut short only when a   *)
(* progress or log write of the step exhausts its retries.              *)
C12_EveryPersonAttempted ==
    [][\A w \in WorkerIds :
         LET me == workers[w]
             r == me.people[me.idx]
             cut_short == workers'[w].pc = "final" /\ workers'[w].idx = me.idx
         IN
         (me.phase = 2 /\ me.pc = "upload" /\ workers'[w] # me /\ ~cut_short) =>
            /\ workers'[w].idx = me.idx + 1
            /\ workers'[w].pc = IF me.idx < Len(me.people) THEN "upload" ELSE "final"
            /\ processed_dir[r] # {} =>
                  /\ Len(workers'[w].drive_results) > Len(me.drive_results)
                  /\ workers'[w].drive_results[Len(me.drive_results) + 1].person = r]_vars

(* the call for the first person failed and the call for the second     *)
(* person was made all the same                                         *)
C12_Witness ==
    \E w \in WorkerIds :
        /\ workers[w].phase = 2
        /\ Len(workers[w].people) = 2
        /\ Len(workers[w].drive_results) = 2
        /\ ~workers[w].drive_results[1].success
        /\ workers[w].drive_results[1].person = workers[w].people[1]
        /\ workers[w].drive_results[2].person = workers[w].people[2]

(* the lists that hold the same people as q in some order              *)
Reorderings(q) ==
    {p \in PeopleLists : Len(p) = Len(q)
                          /\ {p[i] : i \in 1..Len(p)} = {q[i] : i \in 1..Len(q)}}

Outcomes(drive_results) == {drive_results[i] : i \in 1..Len(drive_results)}

(* C15: whatever the order of the list of people, the upload loop       *)
(* records the same success or failure for each person and the same     *)
(* number of successful uploads, the outcome of every file upload being *)
(* the same.                                                            *)
C15_OrderIndependent ==
    (call.fn = "phase2_drive_results" /\ call.done) =>
        \A p \in Reorderings(call.people) :
            LET other == phase2_drive_results(p, call.drive) IN
            /\ Outcomes(other) = Outcomes(call.result)
            /\ successful_uploads(other) = successful_uploads(call.result)

(* two people with files, handled second person first                   *)
C15_Witness ==
    /\ call.fn = "phase2_drive_results"
    /\ call.done
    /\ call.people = <<Bob, Alice>>
    /\ call.drive[Alice].total = 2 /\ call.drive[Alice].fails = {1, 2}
    /\ call.drive[Bob].total = 1 /\ call.drive[Bob].fails = {}
    /\ call.drive[Bob].folder_ok /\ call.drive[Bob].link_ok
    /\ Len(call.result) = 2

Decoded == call.fn = "parse_qr_data" /\ call.done

(* the payload decoded from the encoding of the source tuple equals the *)
(* source tuple, registration_id compared as decimal text               *)
RoundTripExact ==
    /\ call.result.ok
    /\ call.result.parsed.first_name = call.source.first_name
    /\ call.result.parsed.last_name = call.source.last_name
    /\ call.result.parsed.email = call.source.email
    /\ call.result.parsed.registration_id = Str(call.source.registration_id)
    /\ call.result.parsed.qr_token = call.source.qr_token

Trimmed(s) == s # <<>> /\ s[1] # " " /\ s[Len(s)] # " "

Normalized(source) ==
    /\ Trimmed(source.first_name)
    /\ Trimmed(source.last_name)
    /\ Trimmed(source.email)
    /\ Trimmed(source.qr_token)
    /\ \A i \in 1..Len(source.email) : source.email[i] # "A"

ParsesAsInteger(f) ==
    \E a, b \in 0..Len(f) :
        /\ a + b <= Len(f)
        /\ \A i \in 1..a : f[i] = " "
        /\ \A i \in (Len(f) - b + 1)..Len(f) : f[i] = " "
        /\ IsIntLiteral(SubSeq(f, a + 1, Len(f) - b))

Blank(f) == \A i \in 1..Len(f) : f[i] = " "

(* C18: parse_qr_data returns a payload if and only if the string has   *)
(* exactly 5 pipe-separated fields, all non-empty, the fourth of which  *)
(* parses as an integer.                                                *)
C18_DecodesIffWellFormed ==
    Decoded =>
        (call.result.ok <=>
            /\ Len(call.fields) = 5
            /\ \A i \in 1..Len(call.fields) : call.fields[i] # <<>>
            /\ ParsesAsInteger(call.fields[4]))

(* C18 as it holds: parse_qr_data returns a payload if and only if the  *)
(* string has exactly 5 pipe-separated fields, none of them empty or    *)
(* made of white space only, the fourth of which parses as an integer.  *)
C18_DecodesIffNoBlankField ==
    Decoded =>
        (call.result.ok <=>
            /\ Len(call.fields) = 5
            /\ \A i \in 1..Len(call.fields) : ~Blank(call.fields[i])
            /\ ParsesAsInteger(call.fields[4]))

(* five fields, the last one a single space: no payload                 *)
C18_Witness ==
    /\ Decoded
    /\ ~call.source.given
    /\ call.fields = << <<"a">>, <<"a">>, <<"a">>, <<"+", "1">>, <<" ">> >>
    /\ ~call.result.ok

Matched == call.fn = "_match_registration" /\ call.done

WithToken == {r \in RegistrationIds : Registration(r).qr_token = call.qr_data.qr_token}
WithId == {r \in RegistrationIds : Registration(r).id = call.qr_data.registration_id}
WithName == {r \in RegistrationIds : Registration(r).name = call.qr_data.name}

C16_PeopleFoundOfThisRun ==
    [][\A w \in WorkerIds :
         CompletesPhase1(w) =>
           batch'.people_found =
             Cardinality({i \in 1..workers[w].total_photos : MatchedMarker(i) # NULL})]_vars

(* C20: a Phase 1 run on a non-empty batch in which no write exhausts   *)
(* its retries ends with the batch in awaiting_review and the counts of *)
(* the run recorded, whatever the photos hold.                          *)
C20_Phase1EndsAtReview ==
    [][\A w \in WorkerIds :
         CompletesPhase1(w) =>
           /\ batch'.status = "awaiting_review"
           /\ batch'.people_found = workers[w].people_found
           /\ batch'.unmatched_photos = UnmatchedCount(photos')]_vars

(* The status changes the batch lifecycle permits                       *)
StatusPath ==
    {<<"uploading", "uploaded">>, <<"uploaded", "processing">>,
     <<"processing", "awaiting_review">>, <<"awaiting_review", "processing">>,
     <<"processing", "completed">>, <<"processing", "error">>,
     <<"error", "processing">>}

(* C21: the batch status changes only along uploading -> uploaded ->    *)
(* processing -> awaiting_review -> processing -> completed, or from    *)
(* processing to error and from error back to processing; a batch that  *)
(* is processing, awaiting review or completed never returns to         *)
(* uploaded.                                                            *)
C21_StatusTransitions ==
    [][batch'.status # batch.status =>
         <<batch.status, batch'.status>> \in StatusPath]_vars

(* A Phase 2 thread takes a step.                                       *)
Phase2Steps(w) == workers[w].phase = 2 /\ workers'[w] # workers[w]

(* C22: Phase 2 works from persisted state only: run on a new           *)
(* PhotoProcessor it leaves on the batch the people_found and           *)
(* unmatched_photos that Phase 1 recorded.                              *)
C22_Phase2KeepsCounts ==
    [][\A w \in WorkerIds :
         Phase2Steps(w) =>
           /\ batch'.people_found = batch.people_found
           /\ batch'.unmatched_photos = batch.unmatched_photos]_vars

DriveAcceptsPerson(w) ==
    /\ phase2_upload_person(w, TRUE, 0, 0, 0)
    /\ processed_dir[workers[w].people[workers[w].idx]] # {}

C29_TrueMeansPersisted ==
    (call.fn = "db_commit_with_retry" /\ call.done /\ call.result.ret = "True") =>
        call.result.persisted

C25_FolderReused ==
    call.fn = "create_person_folder" =>
        \A i, j \in 1..Len(call.folder_ids) :
            call.requests[i] = call.requests[j] =>
                call.folder_ids[i] = call.folder_ids[j]

DetectReturned == call.fn = "detect_qr_in_image" /\ call.done

Readable == call.image.exists /\ call.image.readable

(* Some preprocessed frame of the image holds a decodable code          *)
VisibleEnhanced ==
    \E s \in StrategyNames \ {"image"} : call.image.frames[s].pyzbar = "valid"

(* C26: in fast mode (enhance = False) detect_qr_in_image makes exactly *)
(* one decode attempt, on the frame as read and downscaled when the     *)
(* image is large, with pyzbar and then OpenCV at its disposal, and     *)
(* returns not detected with 'No QR code found' when that attempt       *)
(* fails, whatever an enhancement or the full resolution would show.    *)
C26_FastModeOneAttempt ==
    (DetectReturned /\ Readable /\ ~call.enhance) =>
        LET frame == call.image.frames["image"]
            result == call.result.result
        IN
        /\ call.result.attempts = <<"image">>
        /\ call.result.downscaled =
             (call.image.width > max_dimension \/ call.image.height > max_dimension)
        /\ frame.pyzbar = "valid" =>
             result.detected /\ call.result.backends = <<"pyzbar">>
        /\ (frame.pyzbar \in {"none", "malformed"} /\ frame.opencv = "valid") =>
             result.detected /\ call.result.backends = <<"pyzbar", "opencv">>
        /\ (frame.pyzbar \in {"none", "malformed"} /\ frame.opencv \in {"none", "malformed"}) =>
             /\ ~result.detected
             /\ call.result.backends = <<"pyzbar", "opencv">>
        /\ ~result.detected => result.error = "No QR code found"

(* a large image whose code only the full resolution shows              *)
C26_Witness ==
    /\ DetectReturned
    /\ Readable
    /\ ~call.enhance
    /\ call.image.width > max_dimension
    /\ call.image.frames["gray_full"].pyzbar = "valid"
    /\ call.image.frames["image"] = NoCode
    /\ ~call.result.result.detected
    /\ call.result.attempts = <<"image">>

(* C27: for a file that is missing or cannot be read,                   *)
(* detect_qr_in_image returns in both modes detected = false with the   *)
(* read error, 'File not found' or 'Failed to read image', which is not *)
(* 'No QR code found', and makes no decode attempt.                     *)
C27_ReadError ==
    (DetectReturned /\ ~Readable) =>
        /\ ~call.result.result.detected
        /\ call.result.result.error =
             (IF call.image.exists THEN "Failed to read image" ELSE "File not found")
        /\ call.result.result.error # "No QR code found"
        /\ call.result.attempts = <<>>

(* an unreadable file in enhanced mode                                  *)
C27_Witness ==
    /\ DetectReturned
    /\ call.image.exists
    /\ ~call.image.readable
    /\ call.enhance
    /\ call.result.result.error = "Failed to read image"
    /\ call.result.attempts = <<>>

(* C28: Phase 1 handles a photo whose QR code is found but whose        *)
(* payload does not parse like a photo without marker: the photo is not *)
(* flagged as QR marker, it is assigned to the current person when one  *)
(* is active, and the current person and the people count stay as they  *)
(* are.                                                                 *)
C28_MalformedLikePlain ==
    [][\A w \in WorkerIds : \A i \in 1..Len(files) :
         (Iterates(w, i) /\ files[i].kind = "malformed") =>
           /\ ~photos'[i].is_qr_code
           /\ workers'[w].current_registration_id = workers[w].current_registration_id
           /\ workers'[w].people_found = workers[w].people_found
           /\ workers[w].current_registration_id # NULL =>
                photos'[i].registration_id = workers[w].current_registration_id]_vars

(* The upload loop of worker w handles its next person.                 *)
UploadsPerson(w) ==
    /\ workers[w].phase = 2
    /\ workers[w].pc = "upload"
    /\ workers'[w] # workers[w]

(* C31: the files Phase 2 hands to the uploader for a person are        *)
(* exactly the files of the photos of this batch that the person owns,  *)
(* also when an earlier batch left files in that person's directory.    *)
C31_OwnFilesOnly ==
    [][\A w \in WorkerIds :
         UploadsPerson(w) =>
           LET r == workers[w].people[workers[w].idx] IN
           processed_dir[r] = PersonPhotos(photos, r)]_vars

(* C32: every result of upload_person_photos has photos_uploaded +      *)
(* photos_failed = the number of files given, and success = true        *)
(* exactly when folder_id and share_link are both non-null, the empty   *)
(* file list and a failing share link included.                         *)
C32_ResultConsistent ==
    (call.fn = "upload_person_photos" /\ call.done) =>
        /\ call.result.photos_uploaded + call.result.photos_failed = call.total
        /\ call.result.success <=>
             (call.result.folder_id # NULL /\ call.result.share_link # NULL)

(* app.py 1878-1882: the people_found that get_processing_status        *)
(* reports, the registrations owning a photo of the batch               *)
get_processing_status(ps) == Cardinality(Owners(ps))

(* C33: when a Phase 1 run completes, the people_found recorded on the  *)
(* batch is the number of distinct registrations owning a photo of the  *)
(* batch, which the status endpoint reports and which is the length of  *)
(* the Phase 2 worklist, also when a person's marker is on several      *)
(* photos.                                                              *)
C33_PeopleFoundDistinct ==
    [][\A w \in WorkerIds :
         CompletesPhase1(w) =>
           /\ batch'.people_found = get_processing_status(photos')
           /\ batch'.people_found = Len(registrations_with_photos(photos'))]_vars
====
